---- MODULE Spec2Model ----
(***************************************************************************)
(* A model of soprano's NMRCalculator (soprano/calculate/nmr/nmr.py) and   *)
(* of the structure interpolation generator linspaceGen                    *)
(* (soprano/collection/generate/linspace.py).                              *)
(*                                                                         *)
(* Python strings are sequences of one-character strings, so that str(),   *)
(* int() and the two regular expressions of nmr.py are computed and not    *)
(* assumed.  A Python value (an entry of an isotopes array) is a record    *)
(* [kind, num, str] with kind in {"none", "int", "str"}.                   *)
(***************************************************************************)
EXTENDS Integers, Sequences, FiniteSets, TLC

VARIABLES elems, isos, hasMs, hasEfg, orients, ret, gen

vars == <<elems, isos, hasMs, hasEfg, orients, ret, gen>>

(* ------------------------------ bounds --------------------------------- *)

\* largest number of atoms of a bound structure
MaxAtoms == 2

(* --------------------------- Python strings ---------------------------- *)

Digits == {"0", "1", "2", "3", "4", "5", "6", "7", "8", "9"}

Letters ==
    {"A", "B", "C", "D", "E", "F", "G", "H", "I", "J", "K", "L", "M",
     "N", "O", "P", "Q", "R", "S", "T", "U", "V", "W", "X", "Y", "Z",
     "a", "b", "c", "d", "e", "f", "g", "h", "i", "j", "k", "l", "m",
     "n", "o", "p", "q", "r", "s", "t", "u", "v", "w", "x", "y", "z"}

DigitChar(d) ==
    CASE d = 0 -> "0" [] d = 1 -> "1" [] d = 2 -> "2" [] d = 3 -> "3"
      [] d = 4 -> "4" [] d = 5 -> "5" [] d = 6 -> "6" [] d = 7 -> "7"
      [] d = 8 -> "8" [] d = 9 -> "9"

DigitVal(c) == CHOOSE d \in 0..9 : DigitChar(d) = c

\* str(n) of a non-negative integer
RECURSIVE IntToStr(_)
IntToStr(n) ==
    IF n < 10 THEN <<DigitChar(n)>>
    ELSE IntToStr(n \div 10) \o <<DigitChar(n % 10)>>

\* int(s): defined on non-empty digit strings, ValueError otherwise
StrIsInt(s) == Len(s) > 0 /\ \A k \in 1..Len(s) : s[k] \in Digits

RECURSIVE StrToInt(_)
StrToInt(s) ==
    IF Len(s) = 0 THEN 0
    ELSE 10 * StrToInt(SubSeq(s, 1, Len(s) - 1)) + DigitVal(s[Len(s)])

PyNone == [kind |-> "none", num |-> 0, str |-> <<>>]
PyInt(n) == [kind |-> "int", num |-> n, str |-> <<>>]
PyStr(s) == [kind |-> "str", num |-> 0, str |-> s]

\* str(v)
Str(v) ==
    CASE v.kind = "none" -> <<"N", "o", "n", "e">>
      [] v.kind = "int" -> IntToStr(v.num)
      [] v.kind = "str" -> v.str

\* re.match('[0-9]+', s) is not None: a match anchored at the start only
ReMatchDigits(s) == Len(s) > 0 /\ s[1] \in Digits

\* end (exclusive) of the longest run of characters of class cls from i
RECURSIVE RunEnd(_, _, _)
RunEnd(s, i, cls) ==
    IF i <= Len(s) /\ s[i] \in cls THEN RunEnd(s, i + 1, cls) ELSE i

\* re.findall('([0-9]*)([A-Za-z]+)', s) scanning from position i
RECURSIVE FindAllFrom(_, _)
FindAllFrom(s, i) ==
    IF i > Len(s) THEN <<>>
    ELSE LET j == RunEnd(s, i, Digits)
             k == RunEnd(s, j, Letters)
         IN  IF k > j
             THEN <<[digits |-> SubSeq(s, i, j - 1),
                     letters |-> SubSeq(s, j, k - 1)]>> \o FindAllFrom(s, k)
             ELSE FindAllFrom(s, i + 1)

FindAll(s) == FindAllFrom(s, 1)

(* ------------------------- isotope data table -------------------------- *)

\* elements of data/nmrdata.json kept in the model
Elements == {<<"H">>, <<"C">>}

\* the isotope records of an element: mass-number string -> 2*I
IsoRecs(el) ==
    IF el = <<"H">>
    THEN (<<"1">> :> 1) @@ (<<"2">> :> 2)
    ELSE (<<"1", "3">> :> 1) @@ (<<"1", "1">> :> 3)

IsoKeys(el) == DOMAIN IsoRecs(el)

\* _nmr_data[el]['iso'] and _nmr_data[el]['Q_iso']
DefaultIso(el) == IF el = <<"H">> THEN <<"1">> ELSE <<"1", "3">>
DefaultQIso(el) == IF el = <<"H">> THEN <<"2">> ELSE <<"1", "1">>

\* the keys of the dictionary _nmr_data[el]
DataKeys(el) == IsoKeys(el) \cup {<<"i", "s", "o">>, <<"Q", "_", "i", "s", "o">>}

(* ------------------------------ _el_iso -------------------------------- *)

ElIso(sym) ==
    LET match == FindAll(sym)
    IN  IF Len(match) # 1
        THEN [err |-> "invalid_isotope_symbol", el |-> <<>>, iso |-> <<>>]
        ELSE IF match[1].letters \notin Elements
        THEN [err |-> "invalid_element_symbol", el |-> <<>>, iso |-> <<>>]
        ELSE LET el == match[1].letters
                 iso == IF match[1].digits = <<>> THEN DefaultIso(el)
                        ELSE match[1].digits
             IN  IF iso \notin DataKeys(el)
                 THEN [err |-> "no_data_on_isotope", el |-> <<>>, iso |-> <<>>]
                 ELSE [err |-> "none", el |-> el, iso |-> iso]

(* ---------------------------- set_isotopes ----------------------------- *)

\* a loop body that takes a number as given, without looking it up
CleanEntryUnchecked(iso, el) ==
    IF ReMatchDigits(Str(iso))
    THEN [err |-> "none", name |-> Str(iso)]
    ELSE IF iso.kind = "none"
    THEN [err |-> "none", name |-> DefaultIso(el)]
    ELSE IF iso = PyStr(<<"Q">>)
    THEN [err |-> "none", name |-> DefaultQIso(el)]
    ELSE LET r == ElIso(iso.str)
         IN  IF r.err # "none" THEN [err |-> r.err, name |-> <<>>]
             ELSE IF r.el # el
             THEN [err |-> "invalid_element_in_array", name |-> <<>>]
             ELSE [err |-> "none", name |-> r.iso]

\* one pass of the loop body of set_isotopes, for atom element el
CleanEntry(iso, el) ==
    IF ReMatchDigits(Str(iso))
    THEN IF Str(iso) \notin DataKeys(el)
         THEN [err |-> "invalid_isotope", name |-> <<>>]
         ELSE [err |-> "none", name |-> Str(iso)]
    ELSE IF iso.kind = "none"
    THEN [err |-> "none", name |-> DefaultIso(el)]
    ELSE IF iso = PyStr(<<"Q">>)
    THEN [err |-> "none", name |-> DefaultQIso(el)]
    ELSE LET r == ElIso(iso.str)
         IN  IF r.err # "none" THEN [err |-> r.err, name |-> <<>>]
             ELSE IF r.el # el
             THEN [err |-> "invalid_element_in_array", name |-> <<>>]
             ELSE [err |-> "none", name |-> r.iso]

\* the loop of set_isotopes from index i with iso_clean = clean
RECURSIVE IsoCleanLoop(_, _, _, _)
IsoCleanLoop(isotopes, els, i, clean) ==
    IF i > Len(isotopes)
    THEN [err |-> "none", pos |-> 0, bad |-> PyNone, clean |-> clean]
    ELSE LET c == CleanEntry(isotopes[i], els[i])
         IN  IF c.err # "none"
             THEN [err |-> c.err, pos |-> i, bad |-> isotopes[i], clean |-> clean]
             ELSE IsoCleanLoop(isotopes, els, i + 1, Append(clean, c.name))

\* a set_isotopes that writes self._isos entry by entry as it validates
SetIsotopesInPlace(cur, els, isotopes) ==
    IF Len(isotopes) # Len(els)
    THEN [err |-> "length", pos |-> 0, bad |-> PyNone, clean |-> <<>>,
          isos |-> cur]
    ELSE LET r == IsoCleanLoop(isotopes, els, 1, <<>>)
         IN  [err |-> r.err, pos |-> r.pos, bad |-> r.bad, clean |-> r.clean,
              isos |-> r.clean \o SubSeq(cur, Len(r.clean) + 1, Len(cur))]

\* set_isotopes: the error raised (or "none") and self._isos afterwards
SetIsotopes(cur, els, isotopes) ==
    IF Len(isotopes) # Len(els)
    THEN [err |-> "length", pos |-> 0, bad |-> PyNone, clean |-> <<>>,
          isos |-> cur]
    ELSE LET r == IsoCleanLoop(isotopes, els, 1, <<>>)
         IN  [err |-> r.err, pos |-> r.pos, bad |-> r.bad, clean |-> r.clean,
              isos |-> IF r.err = "none" THEN r.clean ELSE cur]

(* ------------------------- set_element_isotope ------------------------- *)

\* np.where(cond, isotope, new_isos): the result array takes one dtype, a
\* string isotope turns the integers into strings, None gives objects
NpWhere(cond, isotope, new_isos) ==
    [i \in 1..Len(new_isos) |->
        IF cond[i] THEN isotope
        ELSE IF isotope.kind = "str" THEN PyStr(IntToStr(new_isos[i]))
        ELSE PyInt(new_isos[i])]

\* an array that resets the atoms of the other elements to absent
ElementIsotopeArrayReset(cur, els, element, isotope) ==
    [i \in 1..Len(els) |-> IF els[i] = element THEN isotope ELSE PyNone]

\* the array set_element_isotope hands to set_isotopes
ElementIsotopeArray(cur, els, element, isotope) ==
    NpWhere([i \in 1..Len(els) |-> els[i] = element], isotope,
            [i \in 1..Len(cur) |-> StrToInt(cur[i])])

SetElementIsotope(cur, els, element, isotope) ==
    IF \E i \in 1..Len(cur) : ~StrIsInt(cur[i])
    THEN [err |-> "int_conversion", pos |-> 0, bad |-> PyNone, clean |-> <<>>,
          isos |-> cur]
    ELSE SetIsotopes(cur, els, ElementIsotopeArray(cur, els, element, isotope))

(* ----------------------------- the inputs ------------------------------ *)

Samples == UNION {[1..n -> Elements] : n \in 1..MaxAtoms}

\* entries of an isotopes array: absent, numbers, the marker "Q", symbols
Entries ==
    {PyNone, PyInt(1), PyInt(13), PyStr(<<"Q">>),
     PyStr(<<"1", "3", "C">>), PyStr(<<"H">>), PyStr(<<"X">>)}

\* isotopes arrays offered to a calculator of n atoms: every array of the
\* right length, and arrays of every other length up to MaxAtoms + 1
IsoArrays(n) ==
    [1..n -> Entries]
      \cup UNION {[1..m -> {PyNone, PyInt(1)}] : m \in (0..(MaxAtoms + 1)) \ {n}}

\* element arguments of set_element_isotope
ElementArgs == Elements \cup {<<"X">>}

(* --------------------- the isotope setters' machine -------------------- *)

NoOrients == [set |-> FALSE, p |-> <<>>, w |-> <<>>, t |-> <<>>]
NoGen == [pc |-> "none"]

\* __init__: the assignment comes from set_isotopes on the sample's own
\* 'isotopes' array, or on [None]*len(sample)
InitIso ==
    /\ elems \in Samples
    /\ \E arr \in IsoArrays(Len(elems)) :
          /\ SetIsotopes(<<>>, elems, arr).err = "none"
          /\ isos = SetIsotopes(<<>>, elems, arr).isos
    /\ hasMs = TRUE
    /\ hasEfg = TRUE
    /\ orients = NoOrients
    /\ ret = [op |-> "init"]
    /\ gen = NoGen

set_isotopes ==
    \E isotopes \in IsoArrays(Len(elems)) :
       \E r \in {SetIsotopes(isos, elems, isotopes)} :
           /\ isos' = r.isos
           /\ ret' = [op |-> "set_isotopes", err |-> r.err, pos |-> r.pos,
                      bad |-> r.bad, clean |-> r.clean]
           /\ UNCHANGED <<elems, hasMs, hasEfg, orients, gen>>

set_element_isotope ==
    \E element \in ElementArgs, isotope \in Entries :
       \E r \in {SetElementIsotope(isos, elems, element, isotope)} :
           /\ isos' = r.isos
           /\ ret' = [op |-> "set_element_isotope", err |-> r.err,
                      element |-> element, isotope |-> isotope]
           /\ UNCHANGED <<elems, hasMs, hasEfg, orients, gen>>

NextIso == set_isotopes \/ set_element_isotope

SpecIso == InitIso /\ [][NextIso]_vars

(* ------------------------------ NMRFlags ------------------------------- *)

CS_ISO == 1
CS_ORIENT == 2
CS == 3
Q_1_ORIENT == 4
Q_2_SHIFT == 8
Q_2_ORIENT == 16
Q_2 == 24
Q == 28
ALL == 31

\* Python's a & b on non-negative integers
RECURSIVE BitAnd(_, _)
BitAnd(a, b) ==
    IF a = 0 \/ b = 0 THEN 0
    ELSE (a % 2) * (b % 2) + 2 * BitAnd(a \div 2, b \div 2)

\* Python's a | b on non-negative integers
BitOr(a, b) == a + b - BitAnd(a, b)

EffectsArgs == 0..ALL

(* --------------------------- orientation sets -------------------------- *)

\* A Python list or numpy array: nd tells an ndarray (which has .T) from a
\* list, shape is its nesting, flat its numbers in row-major order.
PyList(xs) == [nd |-> FALSE, shape |-> <<Len(xs)>>, flat |-> xs]
NdArray(shape, xs) == [nd |-> TRUE, shape |-> shape, flat |-> xs]

\* len(a)
PyLen(a) == a.shape[1]

\* angles are whole quarter turns, where sine and cosine are -1, 0 or 1
Angles == 0..1
Sin(a) == CASE a % 4 = 0 -> 0 [] a % 4 = 1 -> 1 [] a % 4 = 2 -> 0 [] OTHER -> -1
Cos(a) == Sin(a + 1)

\* self._orients after set_single_crystal(theta, phi)
SingleCrystal(theta, phi) ==
    [set |-> TRUE,
     p |-> PyList(<<Sin(theta) * Cos(phi), Sin(theta) * Sin(phi), Cos(theta)>>),
     w |-> PyList(<<1>>),
     t |-> PyList(<<>>)]

\* largest subdivision count N handed to set_powder
MaxN == 1

PowderModes == {"octant", "hemisphere", "sphere"}

\* number of directions gen_pwd_ang(N, mode) returns
PowderCount(N, mode) ==
    N * (CASE mode = "octant" -> 1 [] mode = "hemisphere" -> 2 [] OTHER -> 4)

\* gen_pwd_ang(N, mode): n unit directions as an (n, 3) array, n weights,
\* and a triangulation over the directions
GenPwdAng(N, mode) ==
    LET n == PowderCount(N, mode)
    IN  [set |-> TRUE,
         p |-> NdArray(<<n, 3>>, [k \in 1..(3 * n) |-> IF k % 3 = 0 THEN 1 ELSE 0]),
         w |-> NdArray(<<n>>, [k \in 1..n |-> 1]),
         t |-> NdArray(<<IF n > 2 THEN n - 2 ELSE 0, 3>>,
                       [k \in 1..(IF n > 2 THEN 3 * (n - 2) ELSE 0) |->
                           ((k - 1) \div 3) + ((k - 1) % 3) + 1])]

(* ----------------------------- spectrum_1d ----------------------------- *)

\* largest number of bins asked of spectrum_1d
MaxBins == 1

\* largest number of atoms of a structure a spectrum is computed for
MaxNmrAtoms == 1

NmrSamples == UNION {[1..n -> Elements] : n \in 1..MaxNmrAtoms}

ElementSymbols == {<<"1", "3", "C">>, <<"H">>, <<"X">>}
FreqUnits == {"ppm", "Hz"}

\* a_inds: the atoms of element el carrying isotope iso
AInds(els, cur, el, iso) ==
    {i \in 1..Len(els) : els[i] = el /\ cur[i] = iso}

\* has_orient, with every orientation bit but Q_2_ORIENT
HasOrientNoQ2(effects) ==
    BitAnd(effects, BitOr(CS_ORIENT, Q_1_ORIENT)) # 0

\* has_orient = effects & (CS_ORIENT | Q_1_ORIENT | Q_2_ORIENT)
HasOrient(effects) ==
    BitAnd(effects, BitOr(BitOr(CS_ORIENT, Q_1_ORIENT), Q_2_ORIENT)) # 0

Zeros(bins) == [k \in 1..bins |-> 0]

\* an accumulation that deposits every transition, oriented or not
AccumulateAlways(has_orient, ncalls, bins, dep) ==
    IF ncalls > 0 THEN dep ELSE Zeros(bins)

\* spec = np.zeros(freq_axis.shape), then for every atom and transition
\* spec += pwd_avg(...) if has_orient.  An intensity is kept as 0 (nothing
\* was deposited in the bin) or 1 (something was); dep is what the ncalls
\* calls of pwd_avg deposit together.
Accumulate(has_orient, ncalls, bins, dep) ==
    IF has_orient /\ ncalls > 0 THEN dep ELSE Zeros(bins)

SpecRet(err, effects, bins, nsel, spec) ==
    [op |-> "spectrum_1d", err |-> err, effects |-> effects, bins |-> bins,
     nsel |-> nsel, spec |-> spec]

\* spectrum_1d(element, bins=bins, freq_units=units, effects=effects) on
\* the calculator (els, cur, ms, efg, ori): the error it raises or the
\* intensity array it returns.  dep and pwdOk are what pwd_avg does.
Spectrum1d(els, cur, ms, efg, ori, element, units, bins, effects, dep, pwdOk) ==
    LET r == ElIso(element)
        a_inds == AInds(els, cur, r.el, r.iso)
        nsel == Cardinality(a_inds)
        twoI == IsoRecs(r.el)[r.iso]
        ncalls == nsel * twoI
        Fail(e) == SpecRet(e, effects, bins, 0, <<>>)
    IN  IF r.err # "none" THEN Fail(r.err)
        ELSE IF units \notin {"ppm", "MHz"} THEN Fail("invalid_freq_units")
        ELSE IF BitAnd(effects, CS) # 0 /\ ~ms THEN Fail("no_shielding_data")
        ELSE IF BitAnd(effects, CS) # 0 /\ nsel = 0 THEN Fail("unpack_empty")
        ELSE IF BitAnd(effects, Q) # 0 /\ ~efg THEN Fail("no_efg_data")
        ELSE IF BitAnd(effects, Q) # 0 /\ nsel = 0 THEN Fail("unpack_empty")
        ELSE IF HasOrient(effects) /\ ~ori.set THEN Fail("no_orients")
        ELSE IF BitAnd(effects, CS_ORIENT) # 0 /\ ~ori.p.nd
        THEN Fail("list_has_no_T")
        ELSE IF HasOrient(effects) /\ ncalls > 0 /\ ~pwdOk
        THEN Fail("pwd_avg_error")
        ELSE SpecRet("none", effects, bins, nsel,
                     Accumulate(HasOrient(effects), ncalls, bins, dep))

\* pwd_avg takes one frequency per orientation, with the weights: given an
\* orientation set whose directions and weights differ in number it may
\* raise (FALSE) or return (TRUE)
PwdAvgOutcomes(ori, effects) ==
    IF HasOrient(effects) /\ ori.set /\ PyLen(ori.p) # PyLen(ori.w)
    THEN BOOLEAN ELSE {TRUE}

\* what the calls of pwd_avg may deposit in the bins
PwdAvgDeposits(bins, effects) ==
    IF BitAnd(effects, ALL) # 0 THEN [1..bins -> 0..1] ELSE {Zeros(bins)}

(* ------------------------ the calculator's machine --------------------- *)

InitNMR ==
    /\ elems \in NmrSamples
    /\ \E arr \in IsoArrays(Len(elems)) :
          /\ SetIsotopes(<<>>, elems, arr).err = "none"
          /\ isos = SetIsotopes(<<>>, elems, arr).isos
    /\ hasMs \in BOOLEAN
    /\ hasEfg \in BOOLEAN
    /\ orients = NoOrients
    /\ ret = [op |-> "idle"]
    /\ gen = NoGen

set_single_crystal ==
    /\ ret.op # "spectrum_1d"
    /\ \E theta \in Angles, phi \in Angles :
          orients' = SingleCrystal(theta, phi)
    /\ ret' = [op |-> "set_single_crystal"]
    /\ UNCHANGED <<elems, isos, hasMs, hasEfg, gen>>

set_powder ==
    /\ ret.op # "spectrum_1d"
    /\ \E N \in 1..MaxN, mode \in PowderModes :
          orients' = GenPwdAng(N, mode)
    /\ ret' = [op |-> "set_powder"]
    /\ UNCHANGED <<elems, isos, hasMs, hasEfg, gen>>

spectrum_1d ==
    /\ ret.op # "spectrum_1d"
    /\ \E element \in ElementSymbols, units \in FreqUnits, bins \in 0..MaxBins,
          effects \in EffectsArgs :
          \E pwdOk \in PwdAvgOutcomes(orients, effects),
             dep \in PwdAvgDeposits(bins, effects) :
             ret' = Spectrum1d(elems, isos, hasMs, hasEfg, orients, element,
                               units, bins, effects, dep, pwdOk)
    /\ UNCHANGED <<elems, isos, hasMs, hasEfg, orients, gen>>

\* the caller lets go of the spectrum it was returned (or of the error)
drop_spectrum ==
    /\ ret.op = "spectrum_1d"
    /\ ret' = [op |-> "idle"]
    /\ UNCHANGED <<elems, isos, hasMs, hasEfg, orients, gen>>

NextNMR == set_single_crystal \/ set_powder \/ spectrum_1d \/ drop_spectrum

SpecNMR == InitNMR /\ [][NextNMR]_vars

(* ----------------------------- linspaceGen ----------------------------- *)

\* largest number of steps asked of linspaceGen
MaxSteps == 3

\* side of the cubic cell of struct_0
CellL == 4

\* atom positions, inside the cell
Points == {<<0, 0, 0>>, <<3, 1, 0>>}

\* an exact number num/den, for the floats t and pos
Frac(num, den) == [num |-> num, den |-> den]

\* np.linspace(0, 1, steps) without its end point
LinspaceNoEndpoint(steps) == [k \in 1..steps |-> Frac(k - 1, steps)]

\* np.linspace(0, 1, steps): steps numbers from 0 to 1, both included
Linspace(steps) ==
    [k \in 1..steps |-> IF steps = 1 THEN Frac(0, 1) ELSE Frac(k - 1, steps - 1)]

\* a comparison of the two compositions that ignores the order of the atoms
ChemDifferUnordered(chem0, chem1) ==
    \/ Len(chem0) # Len(chem1)
    \/ \E el \in Elements :
          Cardinality({i \in 1..Len(chem0) : chem0[i] = el})
             # Cardinality({i \in 1..Len(chem1) : chem1[i] = el})

\* chem0 != chem1 on two lists of symbols
ChemDiffer(chem0, chem1) == chem0 # chem1

\* utils.minimum_periodic(dpos, cell)[0] for the cubic cell: every
\* component brought to its periodic image of least magnitude
MinimumPeriodic(dpos) ==
    [a \in 1..Len(dpos) |->
        [k \in 1..3 |->
            IF 2 * dpos[a][k] > CellL THEN dpos[a][k] - CellL
            ELSE IF 2 * dpos[a][k] < -CellL THEN dpos[a][k] + CellL
            ELSE dpos[a][k]]]

\* pos1 as the loop uses it
Pos1(g) ==
    IF g.periodic
    THEN LET dpos == MinimumPeriodic([a \in 1..Len(g.pos0) |->
                         [k \in 1..3 |-> g.pos1[a][k] - g.pos0[a][k]]])
         IN  [a \in 1..Len(g.pos0) |-> [k \in 1..3 |-> g.pos0[a][k] + dpos[a][k]]]
    ELSE g.pos1

\* rootname
RootName(g) ==
    IF g.hasName THEN g.name ELSE <<"l", "i", "n", "s", "p", "a", "c", "e">>

\* the structure the loop body builds at index i (from 0) and parameter t
LoopStruct(g, i, t) ==
    [symbols |-> g.chem0,
     pos |-> [a \in 1..Len(g.pos0) |->
                [k \in 1..3 |->
                    Frac(g.pos0[a][k] * (t.den - t.num) + Pos1(g)[a][k] * t.num,
                         t.den)]],
     name |-> RootName(g) \o <<"_">> \o IntToStr(i)]

\* linspaceGen(struct_0, struct_1, steps, periodic) returns a generator
\* that has run none of the body yet
InitGen ==
    /\ \E chem0 \in Samples, chem1 \in Samples :
       \E pos0 \in [1..Len(chem0) -> Points], pos1 \in [1..Len(chem1) -> Points],
          steps \in 0..MaxSteps, periodic \in BOOLEAN, hasName \in BOOLEAN :
          gen = [pc |-> "created", chem0 |-> chem0, chem1 |-> chem1,
                 pos0 |-> pos0, pos1 |-> pos1, steps |-> steps,
                 periodic |-> periodic, hasName |-> hasName, name |-> <<"A">>,
                 i |-> 0, out |-> <<>>]
    /\ elems = <<>>
    /\ isos = <<>>
    /\ hasMs = FALSE
    /\ hasEfg = FALSE
    /\ orients = NoOrients
    /\ ret = [op |-> "idle"]

\* next(generator): the body runs from where it stopped to its next yield,
\* to its end, or to the error it raises
gen_next ==
    /\ gen.pc \in {"created", "suspended"}
    /\ IF gen.pc = "created" /\ ChemDiffer(gen.chem0, gen.chem1)
       THEN gen' = [gen EXCEPT !.pc = "failed"]
       ELSE IF gen.i < Len(Linspace(gen.steps))
       THEN gen' = [gen EXCEPT
                      !.pc = "suspended",
                      !.i = gen.i + 1,
                      !.out = Append(gen.out,
                                 LoopStruct(gen, gen.i, Linspace(gen.steps)[gen.i + 1]))]
       ELSE gen' = [gen EXCEPT !.pc = "done"]
    /\ UNCHANGED <<elems, isos, hasMs, hasEfg, orients, ret>>

NextGen == gen_next

SpecGen == InitGen /\ [][NextGen]_vars

(* --------------------- properties of the generator --------------------- *)

\* the exact number f equals the integer n
FracIs(f, n) == f.num = n * f.den

\* C6: for two structures of identical symbol sequences, periodic = false
\* and steps >= 2, the fully consumed sequence has exactly steps
\* structures; the one at index i is named "<root>_<i>" and has positions
\* pos0*(1-t) + pos1*t with t = i/(steps-1), which at index 0 are
\* structure A's positions and at index steps-1 structure B's.
C6_InterpolationSequence ==
    (gen.pc = "done" /\ gen.chem0 = gen.chem1 /\ ~gen.periodic /\ gen.steps >= 2) =>
        /\ Len(gen.out) = gen.steps
        /\ \A i \in 0..(gen.steps - 1) :
              /\ gen.out[i + 1].name =
                    (IF gen.hasName THEN gen.name
                     ELSE <<"l", "i", "n", "s", "p", "a", "c", "e">>)
                       \o <<"_">> \o IntToStr(i)
              /\ \A a \in 1..Len(gen.chem0) : \A k \in 1..3 :
                    /\ gen.out[i + 1].pos[a][k].den # 0
                    /\ gen.out[i + 1].pos[a][k].num * (gen.steps - 1) =
                          gen.out[i + 1].pos[a][k].den *
                             (gen.pos0[a][k] * (gen.steps - 1 - i) + gen.pos1[a][k] * i)
                    /\ i = 0 => FracIs(gen.out[i + 1].pos[a][k], gen.pos0[a][k])
                    /\ i = gen.steps - 1 =>
                          FracIs(gen.out[i + 1].pos[a][k], gen.pos1[a][k])

\* a named structure interpolated in three steps to different positions
C6_Witness ==
    /\ gen.pc = "done"
    /\ ~gen.periodic
    /\ gen.steps = 3
    /\ gen.hasName
    /\ Len(gen.out) = 3
    /\ gen.pos0 # gen.pos1

\* the two symbol sequences differ in some position
SymbolsDiffer(chem0, chem1) ==
    \/ Len(chem0) # Len(chem1)
    \/ \E i \in 1..Len(chem0) : chem0[i] # chem1[i]

\* C7: interpolation between two structures whose symbol sequences differ
\* in any position, permutations of each other included, fails with an
\* error before any structure is yielded: none is ever produced.
C7_DifferentCompositionFails ==
    SymbolsDiffer(gen.chem0, gen.chem1) =>
        /\ gen.out = <<>>
        /\ gen.pc \in {"created", "failed"}

\* the generator failed on two sequences that are permutations of each other
C7_Witness ==
    /\ gen.pc = "failed"
    /\ Len(gen.chem0) = Len(gen.chem1)
    /\ gen.chem0 # gen.chem1
    /\ ~ChemDifferUnordered(gen.chem0, gen.chem1)

(* -------------------- properties of the calculator --------------------- *)

\* C3: after set_single_crystal the orientation set is one direction (a
\* single 3-vector), one weight equal to 1.0 and an empty triangulation,
\* and the number of directions spectrum_1d counts, len(self._orients[0]),
\* is the number of weights, 1.
C3_SingleCrystalOneDirection ==
    ret.op = "set_single_crystal" =>
        /\ orients.p.shape = <<1, 3>>
        /\ orients.w.flat = <<1>>
        /\ PyLen(orients.t) = 0
        /\ PyLen(orients.p) = PyLen(orients.w)
        /\ PyLen(orients.p) = 1

\* bit b (a power of two) of an effects value
EffectBit(effects, b) == (effects \div b) % 2 = 1

\* an effects value with one of CS_ORIENT, Q_1_ORIENT, Q_2_ORIENT set
OrientBits(effects) ==
    EffectBit(effects, 2) \/ EffectBit(effects, 4) \/ EffectBit(effects, 16)

\* C4: a successful spectrum_1d call whose effects hold no orientation bit
\* returns one intensity per requested bin, each of them zero.
C4_NoOrientAllZero ==
    (ret.op = "spectrum_1d" /\ ret.err = "none" /\ ~OrientBits(ret.effects)) =>
        /\ Len(ret.spec) = ret.bins
        /\ \A k \in 1..Len(ret.spec) : ret.spec[k] = 0

\* CS_ISO | Q_2_SHIFT returned a spectrum over at least one bin for at
\* least one selected atom, on a calculator that has an orientation set
C4_Witness ==
    /\ ret.op = "spectrum_1d"
    /\ ret.err = "none"
    /\ ret.effects = 9
    /\ ret.bins >= 1
    /\ ret.nsel >= 1
    /\ orients.set

\* the errors of a call whose element or freq_units argument is invalid
ArgErrors ==
    {"invalid_isotope_symbol", "invalid_element_symbol", "no_data_on_isotope",
     "invalid_freq_units"}

QBits(effects) ==
    EffectBit(effects, 4) \/ EffectBit(effects, 8) \/ EffectBit(effects, 16)

CSBits(effects) == EffectBit(effects, 1) \/ EffectBit(effects, 2)

\* C5: a spectrum_1d call (of a known element, in known units) fails with
\* the missing-data error whenever its effects hold a quadrupolar bit and
\* the structure has no efg array, and whenever they hold a chemical-shift
\* bit and the structure has no ms array; an array whose bits are not
\* requested is never reported missing.
C5_MissingDataErrors ==
    (ret.op = "spectrum_1d" /\ ret.err \notin ArgErrors) =>
        /\ ((QBits(ret.effects) /\ ~hasEfg) \/ (CSBits(ret.effects) /\ ~hasMs))
              => ret.err \in {"no_efg_data", "no_shielding_data"}
        /\ ret.err = "no_efg_data" => (QBits(ret.effects) /\ ~hasEfg)
        /\ ret.err = "no_shielding_data" => (CSBits(ret.effects) /\ ~hasMs)

\* C10: a spectrum_1d call whose effects hold an orientation bit returns a
\* spectrum only once set_single_crystal or set_powder has stored an
\* orientation set, and a call with no orientation bit never fails for
\* want of one.
C10_NoSpectrumBeforeOrientation ==
    ret.op = "spectrum_1d" =>
        /\ (OrientBits(ret.effects) /\ ret.err = "none") => orients.set
        /\ ~OrientBits(ret.effects) => ret.err # "no_orients"

\* a call with an orientation bit failed on a calculator no orientation
\* setter was ever called on
C10_Witness ==
    /\ ret.op = "spectrum_1d"
    /\ OrientBits(ret.effects)
    /\ ret.err = "no_orients"
    /\ ~orients.set

(* ------------------ properties of the isotope setters ------------------ *)

\* C1: a set_isotopes call that fails (wrong length, unknown isotope
\* number, symbol of another element, ...) leaves the isotope assignment
\* exactly as it was, whichever position of the array raised.
C1_FailedSetIsotopesKeepsAssignment ==
    [][(ret'.op = "set_isotopes" /\ ret'.err # "none") => isos' = isos]_vars

\* a call failed at its second entry after a first entry that was valid
\* and differs from the label atom 1 still has
C1_Witness ==
    /\ ret.op = "set_isotopes"
    /\ ret.err \in {"invalid_isotope", "invalid_element_in_array"}
    /\ ret.pos = 2
    /\ ret.clean[1] # isos[1]

\* an entry <isotope><element> naming element el and one of its isotopes
GoodSymbol(v, el) ==
    /\ v.kind = "str"
    /\ \E k \in 1..Len(v.str) :
          /\ SubSeq(v.str, 1, k) \in IsoKeys(el)
          /\ SubSeq(v.str, k + 1, Len(v.str)) = el

\* the element a symbol entry names: its letters after the leading digits
SymbolElement(v) ==
    SubSeq(v.str, RunEnd(v.str, 1, Digits), Len(v.str))

\* C2: set_isotopes accepts an entry <isotope><element> whose element is
\* the atom's and whose isotope is recorded for it: no call is rejected at
\* such an entry, and the element-mismatch error is raised only at an
\* entry whose element differs from the atom's.
C2_SymbolEntriesAccepted ==
    (ret.op = "set_isotopes" /\ ret.pos > 0) =>
        /\ ~GoodSymbol(ret.bad, elems[ret.pos])
        /\ ret.err = "invalid_element_in_array" =>
               SymbolElement(ret.bad) # elems[ret.pos]

\* the label the set_isotopes rule gives an entry for an atom of el
Resolve(v, el) ==
    CASE v.kind = "int" -> IntToStr(v.num)
      [] v.kind = "none" -> DefaultIso(el)
      [] v.kind = "str" /\ v.str = <<"Q">> -> DefaultQIso(el)
      [] OTHER ->
           IF RunEnd(v.str, 1, Digits) = 1 THEN DefaultIso(el)
           ELSE SubSeq(v.str, 1, RunEnd(v.str, 1, Digits) - 1)

\* C8: a successful set_element_isotope(element, isotope) gives every atom
\* of that element the label the set_isotopes rule resolves isotope to,
\* and leaves the label of every atom of another element as it was.
C8_ElementIsotopeFrame ==
    [][(ret'.op = "set_element_isotope" /\ ret'.err = "none") =>
          \A i \in 1..Len(elems) :
             isos'[i] = IF elems[i] = ret'.element
                        THEN Resolve(ret'.isotope, elems[i])
                        ELSE isos[i]]_vars

\* a successful call that relabelled an atom of the element, next to an
\* atom of another element that keeps a label other than its default
C8_Witness ==
    /\ ret.op = "set_element_isotope"
    /\ ret.err = "none"
    /\ \E i, j \in 1..Len(elems) :
          /\ elems[i] = ret.element
          /\ isos[i] = Resolve(ret.isotope, elems[i])
          /\ isos[i] # DefaultIso(elems[i])
          /\ elems[j] # ret.element
          /\ isos[j] # DefaultIso(elems[j])

====
